---- MODULE Spec2Model ----
(***************************************************************************)
(* AMQPMate (src/unnamed/part_000; src/index.js is the same class with a   *)
(* different constructor signature and logger): one client instance, the   *)
(* Transport (amqplib) it talks to, and the JavaScript event loop that     *)
(* runs its async methods.  Every action is one run-to-completion turn of  *)
(* the event loop: the code between two awaits, a timer callback, or an    *)
(* event handler.                                                          *)
(***************************************************************************)
EXTENDS Integers, Sequences, FiniteSets, TLC

\* ---------------------------------------------------------------- bounds
\* Connections the Transport is willing to open in one run.
MaxConns == 2
\* reconnectOptions.maxRetries as configured for the run (the default is 5).
maxRetries == 2
\* Failures the Transport injects in one run: rejected calls on an open
\* resource, and connections it closes on its own.
MaxFaults == 3
\* Calls the application makes after construction (start, listen, send,
\* gracefulShutdown, close).
MaxCalls == 1
\* Non-null deliveries the Transport hands to consumer callbacks.
MaxMsgs == 2
\* Largest Date.now() difference (ms) measured around one handler.
MaxElapsed == 1
\* gracefulShutdown() calls the application makes after its first one.
MaxRepeats == 1

\* ------------------------------------------------------- program constants
\* #retryWithBackoff(fn, context = '', maxRetries = 3)
sendMaxRetries == 3
\* reconnectOptions.delay and reconnectOptions.backoffMultiplier defaults
reconnectDelay == 1000
backoffMultiplier == 2

Topics == {"t"}
Handlers == {"h1", "h2"}
NoHandler == "none"
NULL == 0

VARIABLES
  \* ---- the AMQPMate instance
  connection,         \* this.connection: NULL or a connection id
  channel,            \* this.channel: NULL or a channel id
  isConnected,        \* this.isConnected
  isShuttingDown,     \* this.isShuttingDown
  listeners,          \* this.listeners: topic -> handler (NoHandler: no entry)
  pendingMessages,    \* this.pendingMessages: set of message ids
  reconnectAttempts,  \* this.reconnectAttempts
  reconnectTimer,     \* this.reconnectTimer: NULL or a timer id
  metrics,            \* this.metrics
  reconnectEnabled,   \* this.reconnectOptions.enabled
  \* ---- the event loop: calls suspended at an await, pending timers
  starts,             \* start() calls in flight
  consumerTasks,      \* #createConsumer() calls in flight
  timers,             \* pending setTimeout(() => this.start(), delay) timers
  msgs,               \* consumer callbacks, by message id
  sends,              \* send() calls, by call number
  shutdowns,          \* gracefulShutdown()/close() calls in flight
  \* ---- the Transport
  nConns,             \* connections opened so far (ids 1..nConns)
  connOpen,           \* ids of the open connections
  chanOpen,           \* ids of the open channels (a channel has its connection's id)
  hooks,              \* connection id -> number of 'close'/'error' handler pairs registered
  subs,               \* active subscriptions: [ch, topic, handler, tag]
  calls,              \* Transport calls made by the publisher: [assertQueue, publish]
  \* ---- what an observer of the run has seen
  obs

vars == << connection, channel, isConnected, isShuttingDown, listeners,
           pendingMessages, reconnectAttempts, reconnectTimer, metrics,
           reconnectEnabled, starts, consumerTasks, timers, msgs, sends,
           shutdowns, nConns, connOpen, chanOpen, hooks, subs, calls, obs >>

instanceVars == << connection, channel, isConnected, isShuttingDown, listeners,
                   pendingMessages, reconnectAttempts, reconnectTimer, metrics,
                   reconnectEnabled >>
loopVars == << starts, consumerTasks, timers, msgs, sends, shutdowns >>
transportVars == << nConns, connOpen, chanOpen, hooks, subs, calls >>

RECURSIVE Pow(_, _)
\* Math.pow(b, e) for a natural exponent
Pow(b, e) == IF e = 0 THEN 1 ELSE b * Pow(b, e - 1)

\* ------------------------------------------------------------------ Init
\* The state right after `new AMQPMate(config)`: the fields as the
\* constructor sets them, config.listeners registered through listen()
\* (isConnected is false, so no consumer is created), and the constructor's
\* own start() suspended at `await amqp.connect(this.url)`.
Init ==
  /\ connection = NULL
  /\ channel = NULL
  /\ isConnected = FALSE
  /\ isShuttingDown = FALSE
  /\ listeners \in [Topics -> {NoHandler, "h1"}]
  /\ pendingMessages = {}
  /\ reconnectAttempts = 0
  /\ reconnectTimer = NULL
  /\ metrics = [messagesSent |-> 0, messagesReceived |-> 0, messagesProcessed |-> 0,
                errors |-> 0, reconnections |-> 0, totalProcessingTime |-> 0]
  /\ reconnectEnabled \in BOOLEAN
  /\ starts = {[id |-> 1, pc |-> "connect", conn |-> NULL]}
  /\ consumerTasks = {}
  /\ timers = {}
  /\ msgs = << >>
  /\ sends = << >>
  /\ shutdowns = {}
  /\ nConns = 0
  /\ connOpen = {}
  /\ chanOpen = {}
  /\ hooks = [c \in 1..MaxConns |-> 0]
  /\ subs = {}
  /\ calls = [assertQueue |-> 0, publish |-> 0]
  /\ obs = [nConnects |-> 1, nManual |-> 0, nCalls |-> 0, faults |-> 0, failedConnects |-> 0,
            everConnected |-> FALSE, fatal |-> 0, thrown |-> FALSE,
            drainWarned |-> FALSE, waited |-> FALSE, timedOut |-> FALSE,
            repeats |-> 0, reconnectionsAtConnect |-> 0]

\* ------------------------------------------------- the instance as a value
\* The fields a method and the methods it calls may write, read into one
\* record so that nested calls compose; Commit writes the record back.
This ==
  [connection |-> connection, channel |-> channel, isConnected |-> isConnected,
   isShuttingDown |-> isShuttingDown, reconnectAttempts |-> reconnectAttempts,
   reconnectTimer |-> reconnectTimer, metrics |-> metrics,
   reconnectEnabled |-> reconnectEnabled, listeners |-> listeners,
   starts |-> starts, consumerTasks |-> consumerTasks, timers |-> timers,
   hooks |-> hooks, obs |-> obs]

Commit(w) ==
  /\ connection' = w.connection
  /\ channel' = w.channel
  /\ isConnected' = w.isConnected
  /\ isShuttingDown' = w.isShuttingDown
  /\ reconnectAttempts' = w.reconnectAttempts
  /\ reconnectTimer' = w.reconnectTimer
  /\ metrics' = w.metrics
  /\ listeners' = w.listeners
  /\ starts' = w.starts
  /\ consumerTasks' = w.consumerTasks
  /\ timers' = w.timers
  /\ hooks' = w.hooks
  /\ obs' = w.obs
  /\ UNCHANGED reconnectEnabled

\* --------------------------------------------------------- #scheduleReconnect
\* Mutant of reconnectDelayFor: the exponent is the attempt number itself.
reconnectDelayForNext(n) == reconnectDelay * Pow(backoffMultiplier, n)

\* The delay of the reconnect scheduled as attempt number n.
reconnectDelayFor(n) == reconnectDelay * Pow(backoffMultiplier, n - 1)

\* Mutant of scheduleReconnect: the ceiling is not looked at.
scheduleReconnectNoCeiling(w) ==
  LET t == w.metrics.reconnections + 1
      n == w.reconnectAttempts + 1
  IN [w EXCEPT !.reconnectAttempts = n,
               !.metrics.reconnections = t,
               !.reconnectTimer = t,
               !.timers = @ \cup {[id |-> t, delay |-> reconnectDelayFor(n)]}]

\* Mutant of scheduleReconnect: the ceiling is compared with > instead of >=.
scheduleReconnectOffByOne(w) ==
  IF w.reconnectAttempts > maxRetries
  THEN [w EXCEPT !.obs.fatal = @ + 1]
  ELSE LET t == w.metrics.reconnections + 1
           n == w.reconnectAttempts + 1
       IN [w EXCEPT !.reconnectAttempts = n,
                    !.metrics.reconnections = t,
                    !.reconnectTimer = t,
                    !.timers = @ \cup {[id |-> t, delay |-> reconnectDelayFor(n)]}]

\* A timer is named by the value metrics.reconnections takes when it is set:
\* the counter only grows, so every setTimeout gets a fresh handle.
scheduleReconnect(w) ==
  IF w.reconnectAttempts >= maxRetries
  THEN [w EXCEPT !.obs.fatal = @ + 1]
  ELSE LET t == w.metrics.reconnections + 1
           n == w.reconnectAttempts + 1
       IN [w EXCEPT !.reconnectAttempts = n,
                    !.metrics.reconnections = t,
                    !.reconnectTimer = t,
                    !.timers = @ \cup {[id |-> t, delay |-> reconnectDelayFor(n)]}]

\* ------------------------------------------------------- Transport failures
\* A call on a closed connection or channel can only reject; a call on an
\* open one rejects when the Transport injects a failure.
CanReject(open) == ~open \/ obs.faults < MaxFaults

injected(w, open) == IF open THEN [w EXCEPT !.obs.faults = @ + 1] ELSE w

\* ------------------------------------------------------------------ start
\* Mutant of startCatch: reconnectOptions.enabled is not consulted.
startCatchReschedules(w) ==
  IF ~w.isShuttingDown
  THEN scheduleReconnect(w)
  ELSE [w EXCEPT !.obs.thrown = TRUE]

\* The catch block of start(): reschedule, or rethrow to the caller.
startCatch(w) ==
  IF ~w.isShuttingDown /\ w.reconnectEnabled
  THEN scheduleReconnect(w)
  ELSE [w EXCEPT !.obs.thrown = TRUE]

\* A name for a new call: the least number no call in flight goes by.
freshId(w) ==
  LET used == {s.id : s \in w.starts} \cup {k.owner : k \in w.consumerTasks}
  IN CHOOSE i \in 1..(Cardinality(used) + 1) :
       i \notin used /\ \A j \in 1..(i - 1) : j \in used

\* start() up to its first await: the guard, then amqp.connect is called.
start(w) ==
  IF w.isConnected \/ w.isShuttingDown
  THEN w
  ELSE [w EXCEPT !.obs.nConnects = @ + 1,
                 !.starts = @ \cup {[id |-> freshId(w), pc |-> "connect",
                                     conn |-> NULL]}]

\* The application calls start() itself.
ManualStart ==
  /\ obs.nCalls < MaxCalls
  /\ Commit(start([This EXCEPT !.obs.nCalls = @ + 1, !.obs.nManual = @ + 1]))
  /\ UNCHANGED << pendingMessages, msgs, sends, shutdowns, nConns, connOpen,
                  chanOpen, subs, calls >>

\* A reconnect timer fires: () => this.start().  The handle kept in
\* reconnectTimer is not cleared.
TimerFires ==
  \E t \in timers :
    /\ Commit(start([This EXCEPT !.timers = @ \ {t}]))
    /\ UNCHANGED << pendingMessages, msgs, sends, shutdowns, nConns, connOpen,
                    chanOpen, subs, calls >>

\* amqp.connect resolves: this.connection is set and createChannel is called
\* on it.
ConnectResolves ==
  \E s \in starts :
    /\ s.pc = "connect"
    /\ nConns < MaxConns
    /\ LET c == nConns + 1
       IN /\ nConns' = c
          /\ connOpen' = connOpen \cup {c}
          /\ Commit([This EXCEPT !.connection = c,
                                 !.starts = (@ \ {s}) \cup
                                            {[s EXCEPT !.pc = "createChannel", !.conn = c]}])
    /\ UNCHANGED << pendingMessages, msgs, sends, shutdowns, chanOpen, subs, calls >>

\* amqp.connect rejects: the catch block runs.
ConnectRejects ==
  \E s \in starts :
    /\ s.pc = "connect"
    /\ obs.faults < MaxFaults
    /\ Commit(startCatch([This EXCEPT !.starts = @ \ {s},
                                      !.obs.faults = @ + 1,
                                      !.obs.failedConnects = @ + 1]))
    /\ UNCHANGED << pendingMessages, msgs, sends, shutdowns, nConns, connOpen,
                    chanOpen, subs, calls >>

\* ------------------------------------------- #setupListeners, #createConsumer
\* #createConsumer(topic, handler) up to its first await: assertQueue is
\* called on the channel this.channel names now.  With this.channel null the
\* call throws inside the async function: the catch logs and rethrows, so
\* the returned promise is already rejected (pc "rejected").
createConsumer(w, owner, topic, handler) ==
  [owner |-> owner, topic |-> topic, handler |-> handler,
   pc |-> IF w.channel = NULL THEN "rejected" ELSE "assertQueue",
   ch |-> w.channel]

\* #setupListeners: one #createConsumer per entry of this.listeners, joined
\* by Promise.all (start() waits at pc "listeners"; with no entry it goes on).
\* A call rejected at once rejects the Promise.all; the other calls go on.
setupListeners(w, s) ==
  LET bound == {t \in Topics : w.listeners[t] # NoHandler}
      made == {createConsumer(w, s.id, t, w.listeners[t]) : t \in bound}
      live == {k \in made : k.pc # "rejected"}
  IN IF bound = {}
     THEN w
     ELSE IF live # made
     THEN startCatch([w EXCEPT !.consumerTasks = @ \cup live])
     ELSE [w EXCEPT !.consumerTasks = @ \cup made,
                    !.starts = @ \cup {[s EXCEPT !.pc = "listeners"]}]

\* #setupConnectionHandlers: both handlers go on the connection
\* this.connection names now; with this.connection null the call throws
\* into start()'s catch block.
setupConnectionHandlers(w, s) ==
  IF w.connection = NULL
  THEN startCatch(w)
  ELSE setupListeners([w EXCEPT !.hooks[w.connection] = @ + 1], s)

\* Mutant of connected: the reconnect counter of the metrics starts over too.
connectedResetsMetrics(w, ch) ==
  [w EXCEPT !.channel = ch, !.isConnected = TRUE, !.reconnectAttempts = 0,
            !.metrics.reconnections = 0, !.obs.everConnected = TRUE,
            !.obs.reconnectionsAtConnect = w.metrics.reconnections]

\* Mutant of connected: reconnectAttempts is not reset.
connectedNoReset(w, ch) ==
  [w EXCEPT !.channel = ch, !.isConnected = TRUE, !.obs.everConnected = TRUE,
            !.obs.reconnectionsAtConnect = w.metrics.reconnections]

\* Lines 157-159: the channel is kept, the instance is connected and the
\* attempt counter starts over.
connected(w, ch) ==
  [w EXCEPT !.channel = ch, !.isConnected = TRUE, !.reconnectAttempts = 0,
            !.obs.everConnected = TRUE,
            !.obs.reconnectionsAtConnect = w.metrics.reconnections]

\* createChannel resolves: lines 157-164 of start().
CreateChannelResolves ==
  \E s \in starts :
    /\ s.pc = "createChannel"
    /\ s.conn \in connOpen
    /\ chanOpen' = chanOpen \cup {s.conn}
    /\ Commit(setupConnectionHandlers(
                connected([This EXCEPT !.starts = @ \ {s}], s.conn), s))
    /\ UNCHANGED << pendingMessages, msgs, sends, shutdowns, nConns, connOpen,
                    subs, calls >>

\* createChannel rejects: the catch block runs; the connection stays open.
CreateChannelRejects ==
  \E s \in starts :
    /\ s.pc = "createChannel"
    /\ CanReject(s.conn \in connOpen)
    /\ Commit(startCatch(injected([This EXCEPT !.starts = @ \ {s},
                                               !.obs.failedConnects = @ + 1],
                                   s.conn \in connOpen)))
    /\ UNCHANGED << pendingMessages, msgs, sends, shutdowns, nConns, connOpen,
                    chanOpen, subs, calls >>

\* A #createConsumer call ends by rethrowing.  Promise.all rejects on the
\* first rejection, so a start() still waiting for this call enters its catch
\* block; a call made by listen() has nobody waiting for it.
consumerFails(w, k) ==
  LET rest == [w EXCEPT !.consumerTasks = @ \ {k}]
      waiting == {s \in w.starts : s.id = k.owner /\ s.pc = "listeners"}
  IN IF waiting = {}
     THEN rest
     ELSE startCatch([rest EXCEPT !.starts = @ \ waiting])

\* A #createConsumer call ends normally; start() goes on when every call it
\* waits for has.
consumerDone(w, k) ==
  LET rest == [w EXCEPT !.consumerTasks = @ \ {k}]
      waiting == {s \in w.starts : s.id = k.owner /\ s.pc = "listeners"}
      others == {j \in rest.consumerTasks : j.owner = k.owner}
  IN IF waiting = {} \/ others # {}
     THEN rest
     ELSE [rest EXCEPT !.starts = @ \ waiting]

\* assertQueue resolves: consume is called on the channel this.channel names
\* now (a null this.channel throws).
AssertQueueResolves ==
  \E k \in consumerTasks :
    /\ k.pc = "assertQueue"
    /\ k.ch \in chanOpen
    /\ IF channel = NULL
       THEN Commit(consumerFails(This, k))
       ELSE Commit([This EXCEPT !.consumerTasks = (@ \ {k}) \cup
                                  {[k EXCEPT !.pc = "consume", !.ch = channel]}])
    /\ UNCHANGED << pendingMessages, msgs, sends, shutdowns, nConns, connOpen,
                    chanOpen, subs, calls >>

AssertQueueRejects ==
  \E k \in consumerTasks :
    /\ k.pc = "assertQueue"
    /\ CanReject(k.ch \in chanOpen)
    /\ Commit(consumerFails(injected(This, k.ch \in chanOpen), k))
    /\ UNCHANGED << pendingMessages, msgs, sends, shutdowns, nConns, connOpen,
                    chanOpen, subs, calls >>

\* consume resolves: the Transport has one more subscription on that channel.
ConsumeResolves ==
  \E k \in consumerTasks :
    /\ k.pc = "consume"
    /\ k.ch \in chanOpen
    /\ LET same == {u \in subs : u.ch = k.ch /\ u.topic = k.topic /\ u.handler = k.handler}
       IN subs' = subs \cup {[ch |-> k.ch, topic |-> k.topic, handler |-> k.handler,
                              tag |-> Cardinality(same) + 1]}
    /\ Commit(consumerDone(This, k))
    /\ UNCHANGED << pendingMessages, msgs, sends, shutdowns, nConns, connOpen,
                    chanOpen, calls >>

ConsumeRejects ==
  \E k \in consumerTasks :
    /\ k.pc = "consume"
    /\ CanReject(k.ch \in chanOpen)
    /\ Commit(consumerFails(injected(This, k.ch \in chanOpen), k))
    /\ UNCHANGED << pendingMessages, msgs, sends, shutdowns, nConns, connOpen,
                    chanOpen, subs, calls >>

\* ------------------------------------------------------------------ listen
listen(w, topic, handler) ==
  LET set == [w EXCEPT !.listeners[topic] = handler]
      made == createConsumer(set, 0, topic, handler)
  IN IF set.isConnected /\ made.pc # "rejected"
     THEN [set EXCEPT !.consumerTasks = @ \cup {made}]
     ELSE set

Listen ==
  /\ obs.nCalls < MaxCalls
  /\ \E t \in Topics, h \in Handlers :
       Commit(listen([This EXCEPT !.obs.nCalls = @ + 1], t, h))
  /\ UNCHANGED << pendingMessages, msgs, sends, shutdowns, nConns, connOpen,
                  chanOpen, subs, calls >>

\* --------------------------------------------- connection 'close' event
\* The 'close' handler of #setupConnectionHandlers.
onClose(w) ==
  LET d == [w EXCEPT !.isConnected = FALSE, !.channel = NULL, !.connection = NULL]
  IN IF ~d.isShuttingDown /\ d.reconnectEnabled THEN scheduleReconnect(d) ELSE d

RECURSIVE emitClose(_, _)
\* EventEmitter.emit('close'): every registered handler runs, in turn.
emitClose(w, n) == IF n = 0 THEN w ELSE emitClose(onClose(w), n - 1)

\* The Transport closes connection c (broker or network): its channel and
\* subscriptions go with it, and 'close' is emitted.
TransportClose ==
  \E c \in connOpen :
    /\ obs.faults < MaxFaults
    /\ connOpen' = connOpen \ {c}
    /\ chanOpen' = chanOpen \ {c}
    /\ subs' = {u \in subs : u.ch # c}
    /\ Commit(emitClose([This EXCEPT !.obs.faults = @ + 1], hooks[c]))
    /\ UNCHANGED << pendingMessages, msgs, sends, shutdowns, nConns, calls >>

\* --------------------------------------------- connection 'error' event
\* The 'error' handler of #setupConnectionHandlers.
onError(w) == [w EXCEPT !.metrics.errors = @ + 1]

RECURSIVE emitError(_, _)
\* EventEmitter.emit('error'): every registered handler runs, in turn.
emitError(w, n) == IF n = 0 THEN w ELSE emitError(onError(w), n - 1)

\* The Transport reports an error on connection c, which stays open.
TransportError ==
  \E c \in connOpen :
    /\ hooks[c] > 0
    /\ obs.faults < MaxFaults
    /\ Commit(emitError([This EXCEPT !.obs.faults = @ + 1], hooks[c]))
    /\ UNCHANGED << pendingMessages, msgs, sends, shutdowns, nConns, connOpen,
                    chanOpen, subs, calls >>

\* ------------------------------------------- the consumer callback (236-271)
\* this.channel.ack(msg) / this.channel.nack(msg) can be carried out: the
\* field names a channel and that channel is open.  On a null field the call
\* is a TypeError, on a closed channel amqplib throws IllegalOperationError.
channelUsable == channel # NULL /\ channel \in chanOpen

\* The Transport's record of message m after an ack reached it: on the
\* channel that delivered m it settles m, on another channel it is a stray.
ack(m) ==
  IF channel = m.ch THEN [m EXCEPT !.acks = @ + 1] ELSE [m EXCEPT !.stray = @ + 1]

\* amqplib's Channel#nack(message, allUpTo, requeue): an omitted requeue
\* argument counts as true.
requeueAsked(arg) == IF arg = "undefined" THEN TRUE ELSE arg

\* `this.channel.nack(msg)`: allUpTo and requeue are not passed.
nack(m) ==
  IF channel = m.ch
  THEN [m EXCEPT !.nacks = @ + 1, !.requeue = requeueAsked("undefined")]
  ELSE [m EXCEPT !.stray = @ + 1]

\* The catch block: errors++, then nack on this.channel; a nack that throws
\* leaves the callback through finally.
callbackCatch(m) ==
  IF channelUsable THEN nack(m) ELSE [m EXCEPT !.threw = TRUE]

\* Mutant of callbackFinally: the delete sits after the nack instead of in a
\* finally block, so a nack that throws skips it.
callbackFinallySkipped(m, id) ==
  IF m.threw THEN pendingMessages ELSE pendingMessages \ {id}

\* The finally block: the id leaves pendingMessages however the callback ends.
callbackFinally(m, id) == pendingMessages \ {id}

\* A delivery the callback ignores: `if (!msg) return`.
NullDelivery ==
  /\ \E u \in subs : u.ch \in chanOpen
  /\ UNCHANGED vars

\* The Transport delivers a message to a subscription's callback.  The id is
\* added to pendingMessages and messagesReceived is incremented; a payload
\* JSON.parse rejects goes through catch and finally in the same turn, a
\* payload it accepts leaves the callback suspended at `await handler(content)`.
Deliver ==
  \E u \in subs, valid \in BOOLEAN :
    /\ u.ch \in chanOpen
    /\ metrics.messagesReceived < MaxMsgs
    /\ LET id == metrics.messagesReceived + 1
           m == [ch |-> u.ch, topic |-> u.topic, handler |-> u.handler,
                 current |-> listeners[u.topic],
                 pc |-> "handler", outcome |-> "none",
                 acks |-> 0, nacks |-> 0, stray |-> 0, threw |-> FALSE,
                 requeue |-> FALSE]
       IN IF valid
          THEN /\ msgs' = Append(msgs, m)
               /\ pendingMessages' = pendingMessages \cup {id}
               /\ metrics' = [metrics EXCEPT !.messagesReceived = id]
          ELSE /\ msgs' = Append(msgs, [callbackCatch(m) EXCEPT !.pc = "done",
                                                            !.outcome = "decodeError"])
               /\ pendingMessages' = callbackFinally(callbackCatch(m), id)
               /\ metrics' = [metrics EXCEPT !.messagesReceived = id,
                                             !.errors = @ + 1]
    /\ UNCHANGED << connection, channel, isConnected, isShuttingDown, listeners,
                    reconnectAttempts, reconnectTimer, reconnectEnabled, starts,
                    consumerTasks, timers, sends, shutdowns, obs >>
    /\ UNCHANGED transportVars

\* Mutant of HandlerDone: the success bookkeeping precedes the ack, so an ack
\* that throws leaves the delivery counted as processed and as an error.
HandlerDoneCountsFirst ==
  \E id \in DOMAIN msgs, ok \in BOOLEAN, elapsed \in 0..MaxElapsed :
    /\ msgs[id].pc = "handler"
    /\ LET m == [msgs[id] EXCEPT !.pc = "done",
                                 !.outcome = IF ok THEN "ok" ELSE "throw"]
       IN IF ok /\ channelUsable
          THEN /\ msgs' = [msgs EXCEPT ![id] = ack(m)]
               /\ metrics' = [metrics EXCEPT !.messagesProcessed = @ + 1,
                                             !.totalProcessingTime = @ + elapsed]
               /\ pendingMessages' = callbackFinally(ack(m), id)
          ELSE /\ msgs' = [msgs EXCEPT ![id] = callbackCatch(m)]
               /\ metrics' = [metrics EXCEPT
                                !.errors = @ + 1,
                                !.messagesProcessed = @ + (IF ok THEN 1 ELSE 0),
                                !.totalProcessingTime = @ + (IF ok THEN elapsed ELSE 0)]
               /\ pendingMessages' = callbackFinally(callbackCatch(m), id)
    /\ UNCHANGED << connection, channel, isConnected, isShuttingDown, listeners,
                    reconnectAttempts, reconnectTimer, reconnectEnabled, starts,
                    consumerTasks, timers, sends, shutdowns, obs >>
    /\ UNCHANGED transportVars

\* The handler's promise settles and the callback runs to its end: ack and
\* the success bookkeeping, or the catch block; finally removes the id.  An
\* ack that throws lands in the same catch block.
HandlerDone ==
  \E id \in DOMAIN msgs, ok \in BOOLEAN, elapsed \in 0..MaxElapsed :
    /\ msgs[id].pc = "handler"
    /\ LET m == [msgs[id] EXCEPT !.pc = "done",
                                 !.outcome = IF ok THEN "ok" ELSE "throw"]
       IN IF ok /\ channelUsable
          THEN /\ msgs' = [msgs EXCEPT ![id] = ack(m)]
               /\ metrics' = [metrics EXCEPT !.messagesProcessed = @ + 1,
                                             !.totalProcessingTime = @ + elapsed]
               /\ pendingMessages' = callbackFinally(ack(m), id)
          ELSE /\ msgs' = [msgs EXCEPT ![id] = callbackCatch(m)]
               /\ metrics' = [metrics EXCEPT !.errors = @ + 1]
               /\ pendingMessages' = callbackFinally(callbackCatch(m), id)
    /\ UNCHANGED << connection, channel, isConnected, isShuttingDown, listeners,
                    reconnectAttempts, reconnectTimer, reconnectEnabled, starts,
                    consumerTasks, timers, sends, shutdowns, obs >>
    /\ UNCHANGED transportVars

\* ------------------------------------------- send, #retryWithBackoff
\* The delay #retryWithBackoff sleeps after failed attempt i.
retryDelay(i) == Pow(2, i) * 1000

\* Attempt i of #retryWithBackoff begins: fn() runs up to
\* `await this.channel.assertQueue(...)`.  A null this.channel throws at
\* once (pc "threw": the rejection is caught in sendCatch).
sendAttempt(r, i) ==
  IF channel = NULL
  THEN [r EXCEPT !.i = i, !.attempts = @ + 1, !.pc = "threw"]
  ELSE [r EXCEPT !.i = i, !.attempts = @ + 1, !.pc = "assertQueue", !.ch = channel]

\* Mutant of sendCatch: errors++ sits inside the `if` of the last attempt.
sendCatchCountsOnce(r) ==
  IF r.i = sendMaxRetries - 1
  THEN [r EXCEPT !.pc = "done", !.result = "failed", !.errs = @ + 1,
                 !.thrownOf = r.attempts]
  ELSE [r EXCEPT !.pc = "sleep", !.delays = Append(@, retryDelay(r.i))]

\* The catch block of #retryWithBackoff for attempt r.i: errors++, then
\* rethrow after the last attempt or sleep 2^i seconds.
sendCatch(r) ==
  IF r.i = sendMaxRetries - 1
  THEN [r EXCEPT !.pc = "done", !.result = "failed", !.errs = @ + 1,
                 !.thrownOf = r.attempts]
  ELSE [r EXCEPT !.pc = "sleep", !.errs = @ + 1,
                 !.delays = Append(@, retryDelay(r.i))]

\* fn() begun and, when it threw at once, caught.
sendTry(r, i) ==
  LET a == sendAttempt(r, i) IN IF a.pc = "threw" THEN sendCatch(a) ELSE a

\* Mutant of sendRefused: the guard is missing.
sendRefusedNever == FALSE

\* The guard of send(): `if (!this.isConnected)`.
sendRefused == ~isConnected

newSend ==
  [pc |-> "done", result |-> "none", i |-> 0, ch |-> NULL, attempts |-> 0,
   errs |-> 0, sent |-> 0, delays |-> << >>, thrownOf |-> NULL]

\* send(topic, data) up to its first await.
Send ==
  /\ obs.nCalls < MaxCalls
  /\ obs' = [obs EXCEPT !.nCalls = @ + 1]
  /\ IF sendRefused
     THEN /\ sends' = Append(sends, [newSend EXCEPT !.result = "notConnected"])
          /\ UNCHANGED << metrics, calls >>
     ELSE LET r == sendTry(newSend, 0)
          IN /\ sends' = Append(sends, r)
             /\ metrics' = [metrics EXCEPT !.errors = @ + r.errs]
             /\ calls' = [calls EXCEPT !.assertQueue =
                                         @ + (IF r.pc = "assertQueue" THEN 1 ELSE 0)]
  /\ UNCHANGED << connection, channel, isConnected, isShuttingDown, listeners,
                  pendingMessages, reconnectAttempts, reconnectTimer,
                  reconnectEnabled, starts, consumerTasks, timers, msgs, shutdowns,
                  nConns, connOpen, chanOpen, hooks, subs >>

\* assertQueue resolves: sendToQueue on the channel this.channel names now,
\* then messagesSent++; a sendToQueue that throws is caught as a failed attempt.
SendAssertResolves ==
  \E n \in DOMAIN sends :
    /\ sends[n].pc = "assertQueue"
    /\ sends[n].ch \in chanOpen
    /\ IF channelUsable
       THEN /\ sends' = [sends EXCEPT ![n].pc = "done", ![n].result = "ok",
                                      ![n].sent = @ + 1]
            /\ metrics' = [metrics EXCEPT !.messagesSent = @ + 1]
            /\ calls' = [calls EXCEPT !.publish = @ + 1]
       ELSE /\ sends' = [sends EXCEPT ![n] = sendCatch(@)]
            /\ metrics' = [metrics EXCEPT !.errors = @ + (sendCatch(sends[n]).errs - sends[n].errs)]
            /\ UNCHANGED calls
    /\ UNCHANGED << connection, channel, isConnected, isShuttingDown, listeners,
                    pendingMessages, reconnectAttempts, reconnectTimer,
                    reconnectEnabled, starts, consumerTasks, timers, msgs, shutdowns,
                    nConns, connOpen, chanOpen, hooks, subs, obs >>

SendAssertRejects ==
  \E n \in DOMAIN sends :
    /\ sends[n].pc = "assertQueue"
    /\ CanReject(sends[n].ch \in chanOpen)
    /\ sends' = [sends EXCEPT ![n] = sendCatch(@)]
    /\ metrics' = [metrics EXCEPT !.errors = @ + (sendCatch(sends[n]).errs - sends[n].errs)]
    /\ obs' = injected(This, sends[n].ch \in chanOpen).obs
    /\ UNCHANGED << connection, channel, isConnected, isShuttingDown, listeners,
                    pendingMessages, reconnectAttempts, reconnectTimer,
                    reconnectEnabled, starts, consumerTasks, timers, msgs, shutdowns,
                    nConns, connOpen, chanOpen, hooks, subs, calls >>

\* The sleep of #retryWithBackoff ends: the next attempt begins.
SendWakes ==
  \E n \in DOMAIN sends :
    /\ sends[n].pc = "sleep"
    /\ LET before == sends[n]
           r == sendTry(before, before.i + 1)
       IN /\ sends' = [sends EXCEPT ![n] = r]
          /\ metrics' = [metrics EXCEPT !.errors = @ + (r.errs - before.errs)]
          /\ calls' = [calls EXCEPT !.assertQueue =
                                      @ + (IF r.pc = "assertQueue" THEN 1 ELSE 0)]
    /\ UNCHANGED << connection, channel, isConnected, isShuttingDown, listeners,
                    pendingMessages, reconnectAttempts, reconnectTimer,
                    reconnectEnabled, starts, consumerTasks, timers, msgs, shutdowns,
                    nConns, connOpen, chanOpen, hooks, subs, obs >>

\* ------------------------------------------------- gracefulShutdown, close
\* close() up to its first await.  Not connected: it returns.  Otherwise
\* `await this.channel?.close()`: amqplib invalidates the channel at the call
\* (its subscriptions stop delivering); closing a channel that is not open
\* rejects.  With this.channel null the await goes straight on to
\* `await this.connection?.close()` (closeConnection).
closeConnection(w, kind) ==
  [w EXCEPT !.shutdowns = @ \cup {[kind |-> kind, pc |-> "connClose",
                                   target |-> w.connection,
                                   wasOpen |-> w.connection \in w.connOpen]},
            !.connOpen = @ \ {w.connection},
            !.chanOpen = @ \ {w.connection},
            !.subs = {u \in @ : u.ch # w.connection}]

\* The finally block of close().
closeFinally(w) ==
  [w EXCEPT !.isConnected = FALSE, !.channel = NULL, !.connection = NULL]

close(w, kind) ==
  IF ~w.isConnected
  THEN w
  ELSE IF w.channel = NULL
  THEN IF w.connection = NULL THEN closeFinally(w) ELSE closeConnection(w, kind)
  ELSE [w EXCEPT !.shutdowns = @ \cup {[kind |-> kind, pc |-> "chanClose",
                                        target |-> w.channel,
                                        wasOpen |-> w.channel \in w.chanOpen]},
                 !.chanOpen = @ \ {w.channel},
                 !.subs = {u \in @ : u.ch # w.channel}]

\* The instance together with the Transport state close() acts on.
ThisT ==
  [f \in (DOMAIN This) \cup {"shutdowns", "connOpen", "chanOpen", "subs"} |->
     CASE f = "shutdowns" -> shutdowns
       [] f = "connOpen" -> connOpen
       [] f = "chanOpen" -> chanOpen
       [] f = "subs" -> subs
       [] OTHER -> This[f]]

CommitT(w) ==
  /\ Commit(w)
  /\ shutdowns' = w.shutdowns
  /\ connOpen' = w.connOpen
  /\ chanOpen' = w.chanOpen
  /\ subs' = w.subs

\* The application calls close().
Close ==
  /\ obs.nCalls < MaxCalls
  /\ CommitT(close([ThisT EXCEPT !.obs.nCalls = @ + 1], "close"))
  /\ UNCHANGED << pendingMessages, msgs, sends, nConns, calls >>

\* channel.close() resolves: close() goes on to `await this.connection?.close()`.
ChanCloseResolves ==
  \E d \in shutdowns :
    /\ d.pc = "chanClose"
    /\ d.wasOpen
    /\ LET w == [ThisT EXCEPT !.shutdowns = @ \ {d}]
       IN CommitT(IF w.connection = NULL THEN closeFinally(w)
                  ELSE closeConnection(w, d.kind))
    /\ UNCHANGED << pendingMessages, msgs, sends, nConns, calls >>

\* channel.close() rejects: catch logs, finally runs; connection.close() is
\* not reached.
ChanCloseRejects ==
  \E d \in shutdowns :
    /\ d.pc = "chanClose"
    /\ CanReject(d.wasOpen)
    /\ CommitT(closeFinally(injected([ThisT EXCEPT !.shutdowns = @ \ {d}], d.wasOpen)))
    /\ UNCHANGED << pendingMessages, msgs, sends, nConns, calls >>

\* connection.close() settles.  After a completed closing handshake the
\* connection emits 'close' (its handlers run) and the promise resolves;
\* on a connection that was not open the promise rejects.  Either way the
\* finally block runs next.
ConnCloseSettles ==
  \E d \in shutdowns :
    /\ d.pc = "connClose"
    /\ LET w == [ThisT EXCEPT !.shutdowns = @ \ {d}]
       IN CommitT(closeFinally(IF d.wasOpen THEN emitClose(w, hooks[d.target]) ELSE w))
    /\ UNCHANGED << pendingMessages, msgs, sends, nConns, calls >>

\* gracefulShutdown(timeout) after the wait loop: the warning, then close().
shutdownClose(w) ==
  close([w EXCEPT !.obs.drainWarned = @ \/ (pendingMessages # {})], "graceful")

\* Mutant of gracefulShutdown: the isShuttingDown guard is missing.
gracefulShutdownNoGuard(w) ==
  LET c == [w EXCEPT !.isShuttingDown = TRUE,
                     !.timers = {t \in @ : t.id # w.reconnectTimer},
                     !.reconnectTimer = NULL]
  IN IF pendingMessages # {}
     THEN [c EXCEPT !.shutdowns = @ \cup {[kind |-> "graceful", pc |-> "drain",
                                           target |-> NULL, wasOpen |-> FALSE]},
                    !.obs.waited = TRUE]
     ELSE shutdownClose(c)

\* Mutant of gracefulShutdown: the wait loop is missing.
gracefulShutdownNoDrain(w) ==
  IF w.isShuttingDown
  THEN w
  ELSE shutdownClose([w EXCEPT !.isShuttingDown = TRUE,
                               !.timers = {t \in @ : t.id # w.reconnectTimer},
                               !.reconnectTimer = NULL])

\* gracefulShutdown(timeout) up to its first await.  The first pass of the
\* loop runs at elapsed time 0, so with messages pending it sleeps (timeout
\* > 0).
gracefulShutdown(w) ==
  IF w.isShuttingDown
  THEN w
  ELSE LET c == [w EXCEPT !.isShuttingDown = TRUE,
                          !.timers = {t \in @ : t.id # w.reconnectTimer},
                          !.reconnectTimer = NULL]
       IN IF pendingMessages # {}
          THEN [c EXCEPT !.shutdowns = @ \cup {[kind |-> "graceful", pc |-> "drain",
                                                target |-> NULL, wasOpen |-> FALSE]},
                         !.obs.waited = TRUE]
          ELSE shutdownClose(c)

\* The application calls gracefulShutdown(): for the first time, or again.
GracefulShutdown ==
  /\ IF isShuttingDown THEN obs.repeats < MaxRepeats ELSE obs.nCalls < MaxCalls
  /\ CommitT(gracefulShutdown(IF isShuttingDown
                               THEN [ThisT EXCEPT !.obs.repeats = @ + 1]
                               ELSE [ThisT EXCEPT !.obs.nCalls = @ + 1]))
  /\ UNCHANGED << pendingMessages, msgs, sends, nConns, calls >>

\* The 100 ms sleep of the wait loop ends: the loop goes round again while
\* messages are pending and the timeout has not elapsed.
DrainWakes ==
  \E d \in shutdowns, timedOut \in BOOLEAN :
    /\ d.pc = "drain"
    /\ IF pendingMessages # {} /\ ~timedOut
       THEN UNCHANGED << connection, channel, isConnected, isShuttingDown, listeners,
                         reconnectAttempts, reconnectTimer, metrics, reconnectEnabled,
                         starts, consumerTasks, timers, hooks, obs, shutdowns,
                         connOpen, chanOpen, subs >>
       ELSE CommitT(shutdownClose([ThisT EXCEPT !.shutdowns = @ \ {d},
                                                !.obs.timedOut = pendingMessages # {}]))
    /\ UNCHANGED << pendingMessages, msgs, sends, nConns, calls >>

\* ------------------------------------------------------------ getMetrics
\* Math.round(a / b) for a >= 0 and b > 0: the nearest integer, a tie going up.
MathRound(a, b) == (2 * a + b) \div (2 * b)

\* Mutant of avgProcessingTime: Math.floor instead of Math.round.
avgProcessingTimeFloored ==
  IF metrics.messagesProcessed > 0
  THEN metrics.totalProcessingTime \div metrics.messagesProcessed
  ELSE 0

\* getMetrics().avgProcessingTime
avgProcessingTime ==
  IF metrics.messagesProcessed > 0
  THEN MathRound(metrics.totalProcessingTime, metrics.messagesProcessed)
  ELSE 0

\* ------------------------------------------------------- getHealthCheck
getHealthCheckStatus == IF isConnected THEN "healthy" ELSE "unhealthy"

Next ==
  \/ ManualStart
  \/ TimerFires
  \/ ConnectResolves
  \/ ConnectRejects
  \/ CreateChannelResolves
  \/ CreateChannelRejects
  \/ AssertQueueResolves
  \/ AssertQueueRejects
  \/ ConsumeResolves
  \/ ConsumeRejects
  \/ Listen
  \/ TransportClose
  \/ TransportError
  \/ NullDelivery
  \/ Deliver
  \/ HandlerDone
  \/ Send
  \/ SendAssertResolves
  \/ SendAssertRejects
  \/ SendWakes
  \/ Close
  \/ ChanCloseResolves
  \/ ChanCloseRejects
  \/ ConnCloseSettles
  \/ GracefulShutdown
  \/ DrainWakes

Spec == Init /\ [][Next]_vars

\* ================================================================ claims
\* The callback of message id runs to its end in this step.
finishesNow(id) ==
  /\ id \in DOMAIN msgs'
  /\ msgs'[id].pc = "done"
  /\ (id \notin DOMAIN msgs \/ msgs[id].pc = "handler")

\* C1: a non-null delivery whose handler throws or whose payload does not
\* decode is rejected on its channel and never acknowledged, adds exactly 1
\* to metrics.errors and nothing to metrics.messagesProcessed, and its id
\* leaves pendingMessages.
C1_FailureIsRejected ==
  [][\A id \in DOMAIN msgs' :
       (finishesNow(id) /\ msgs'[id].outcome \in {"throw", "decodeError"})
         => /\ msgs'[id].nacks = 1
            /\ msgs'[id].acks = 0
            /\ metrics'.errors = metrics.errors + 1
            /\ metrics'.messagesProcessed = metrics.messagesProcessed
            /\ id \notin pendingMessages']_vars

\* C2: a non-null delivery whose handler completes without error is
\* acknowledged exactly once, adds exactly 1 to metrics.messagesProcessed and
\* nothing to metrics.errors, whatever happened to the connection while the
\* handler was awaited.
C2_SuccessIsAcked ==
  [][\A id \in DOMAIN msgs' :
       (finishesNow(id) /\ msgs'[id].outcome = "ok")
         => /\ msgs'[id].acks = 1
            /\ msgs'[id].nacks = 0
            /\ metrics'.messagesProcessed = metrics.messagesProcessed + 1
            /\ metrics'.errors = metrics.errors]_vars

\* C3: pendingMessages holds exactly the ids of the callbacks that have begun
\* and not yet run to their end; so it holds an id for as long as its
\* callback runs and is empty once every callback has ended, also when ack
\* or nack threw.
C3_InFlightSet ==
  pendingMessages = {id \in DOMAIN msgs : msgs[id].pc = "handler"}

\* Two callbacks have ended, one acknowledged and one left by a nack that
\* threw, and the set is empty again.
C3_Witness ==
  /\ pendingMessages = {}
  /\ \E a, b \in DOMAIN msgs :
       /\ msgs[a].outcome = "ok" /\ msgs[a].acks = 1
       /\ msgs[b].pc = "done" /\ msgs[b].threw

\* C4: send() called while isConnected is false fails at once with the
\* not-connected error: no assertQueue, no publish, no attempt, no sleep, no
\* change of any metric; and the call stays failed.
C4_SendNotConnected ==
  [][/\ (Len(sends') = Len(sends) + 1 /\ ~isConnected)
          => /\ sends'[Len(sends')].result = "notConnected"
             /\ sends'[Len(sends')].pc = "done"
             /\ sends'[Len(sends')].attempts = 0
             /\ sends'[Len(sends')].delays = << >>
             /\ calls' = calls
             /\ metrics' = metrics
     /\ \A n \in DOMAIN sends :
          sends[n].result = "notConnected" => sends'[n] = sends[n]]_vars

C4_Witness ==
  \E n \in DOMAIN sends : sends[n].result = "notConnected"

\* C5: a send() begun while connected makes at most 3 attempts and sleeps
\* 1000 ms after the first failed attempt and 2000 ms after the second; it
\* stops at the first attempt that succeeds, which adds exactly 1 to
\* metrics.messagesSent; when all 3 fail it fails with the third attempt's
\* error, having added exactly 3 to metrics.errors and nothing to
\* metrics.messagesSent.
C5_SendState(r) ==
  r.result # "notConnected" =>
    /\ r.attempts \in 1..3
    /\ r.delays \in {<< >>, <<1000>>, <<1000, 2000>>}
    /\ Len(r.delays) = (IF r.pc = "sleep" THEN r.attempts ELSE r.attempts - 1)
    /\ r.pc = "done" <=> r.result \in {"ok", "failed"}
    /\ r.result = "ok" => r.sent = 1 /\ r.errs = r.attempts - 1
    /\ r.result = "failed" =>
         r.attempts = 3 /\ r.errs = 3 /\ r.sent = 0 /\ r.thrownOf = 3
    /\ r.result = "none" => r.sent = 0

C5_SendStep(n) ==
  LET before == IF n \in DOMAIN sends THEN sends[n] ELSE newSend
      after == sends'[n]
  IN /\ before.pc = "done" /\ n \in DOMAIN sends => after = before
     /\ after # before =>
          /\ metrics'.errors - metrics.errors = after.errs - before.errs
          /\ metrics'.messagesSent - metrics.messagesSent = after.sent - before.sent

C5_SendRetries ==
  /\ [](\A n \in DOMAIN sends : C5_SendState(sends[n]))
  /\ [][\A n \in DOMAIN sends' : C5_SendStep(n)]_vars

\* A send() has failed after three attempts.
C5_Witness ==
  \E n \in DOMAIN sends : sends[n].result = "failed" /\ sends[n].attempts = 3

\* Every connect attempt so far failed, the application made no start() call
\* of its own, reconnect is enabled and no shutdown was asked for.
C6_AllFail ==
  obs.nManual = 0 /\ ~obs.everConnected /\ reconnectEnabled /\ ~isShuttingDown

\* C6 as claimed: once maxRetries connect attempts have failed nothing more
\* is attempted (no start() in flight, no timer pending) and the terminal
\* failure has been reported exactly once.
C6_Original ==
  (C6_AllFail /\ obs.failedConnects >= maxRetries)
    => starts = {} /\ timers = {} /\ obs.fatal = 1

\* C6 as amended: the constructor's attempt plus maxRetries scheduled
\* reconnects are made, maxRetries + 1 in all; the terminal failure is
\* reported when the last of them fails, exactly once, and nothing is
\* attempted or pending after it.
C6_Exhausted ==
  C6_AllFail =>
    /\ obs.nConnects <= maxRetries + 1
    /\ obs.failedConnects <= maxRetries + 1
    /\ obs.fatal = (IF obs.failedConnects = maxRetries + 1 THEN 1 ELSE 0)
    /\ obs.failedConnects = maxRetries + 1 =>
         starts = {} /\ timers = {} /\ obs.nConnects = maxRetries + 1
    /\ obs.failedConnects <= maxRetries =>
         metrics.reconnections = obs.failedConnects

C6_Witness ==
  C6_AllFail /\ obs.failedConnects = maxRetries + 1 /\ obs.fatal = 1

\* C7: with fewer than maxRetries failed connect attempts before the first
\* success (reconnect enabled, no shutdown asked for): the status is
\* 'unhealthy' until that success; the success leaves metrics.reconnections
\* equal to the number of failures, the status 'healthy', and
\* reconnectAttempts back at 0 from that number.
C7_FirstConnect ==
  /\ [](~obs.everConnected => getHealthCheckStatus = "unhealthy")
  /\ [][(/\ ~obs.everConnected /\ obs'.everConnected
         /\ reconnectEnabled /\ ~isShuttingDown
         /\ obs.failedConnects < maxRetries)
          => /\ metrics'.reconnections = obs.failedConnects
             /\ reconnectAttempts = obs.failedConnects
             /\ reconnectAttempts' = 0
             /\ getHealthCheckStatus' = "healthy"]_vars

\* One failed attempt, then the first success.
C7_Witness ==
  /\ obs.everConnected /\ isConnected /\ obs.nConnects = 2
  /\ obs.failedConnects = 1 /\ metrics.reconnections = 1 /\ reconnectAttempts = 0

\* Connection c is closed by the Transport in this step.
closedByTransport(c) ==
  c \in connOpen /\ c \notin connOpen' /\ obs'.faults = obs.faults + 1

\* C8: a 'close' event received while connected, not shutting down and with
\* reconnect enabled leaves the instance disconnected with channel and
\* connection cleared, and with a reconnect under way (a timer pending or a
\* connect attempt in flight) -- without one the instance cannot become
\* connected again by itself.
C8_CloseReconnects ==
  [][\A c \in 1..MaxConns :
       (/\ closedByTransport(c) /\ hooks[c] > 0
        /\ isConnected /\ ~isShuttingDown /\ reconnectEnabled)
         => /\ ~isConnected' /\ channel' = NULL /\ connection' = NULL
            /\ \/ timers' # {}
               \/ \E s \in starts' : s.pc \in {"connect", "createChannel"}]_vars

\* Nothing of the instance is suspended or scheduled.
quiescent ==
  starts = {} /\ consumerTasks = {} /\ timers = {} /\ shutdowns = {}

subsOn(ch, t) == {u \in subs : u.ch = ch /\ u.topic = t}

\* C9: once start() has reached Connected and nothing is pending any more,
\* every bound topic has exactly one subscription on the current channel.
C9_Resubscribed ==
  (isConnected /\ quiescent)
    => \A t \in Topics :
         listeners[t] # NoHandler => Cardinality(subsOn(channel, t)) = 1

\* C10: no channel carries two subscriptions for one topic, and every
\* delivery is handled by the handler registered last for its topic.
C10_OneSubscription ==
  /\ \A u, v \in subs : (u.ch = v.ch /\ u.topic = v.topic) => u = v
  /\ \A id \in DOMAIN msgs : msgs[id].handler = msgs[id].current

\* The start() calls suspended at a Transport connect (amqp.connect, or the
\* createChannel that completes the attempt).
connecting == {s \in starts : s.pc \in {"connect", "createChannel"}}

\* C11: start() called while a connect attempt is in progress, while
\* connected or while shutting down initiates no Transport connect; so at
\* most one connect attempt is in progress at any time.
C11_OneConnectAttempt ==
  /\ [](Cardinality(connecting) <= 1)
  /\ [][(connecting # {} \/ isConnected \/ isShuttingDown)
          => obs'.nConnects = obs.nConnects]_vars

\* C12: at most one reconnect timer is pending at any time, and every
\* pending timer is the one reconnectTimer refers to.
C12_OneTimer ==
  /\ Cardinality(timers) <= 1
  /\ \A t \in timers : t.id = reconnectTimer

\* The first gracefulShutdown() call has returned: the flag it sets is up
\* and no call of that kind is suspended any more.
gracefulReturned ==
  isShuttingDown /\ \A d \in shutdowns : d.kind # "graceful"

\* C13: once gracefulShutdown() has returned the instance is not connected,
\* and it never becomes connected again.
C13_ShutdownIsFinal == gracefulReturned => ~isConnected

\* The gracefulShutdown() call leaves its wait loop in this step (and goes on
\* to close()).
leavesWaitLoop ==
  /\ isShuttingDown'
  /\ ~isShuttingDown \/ \E d \in shutdowns : d.pc = "drain"
  /\ \A d \in shutdowns' : d.pc # "drain"

\* C14: gracefulShutdown(timeout) goes on to close the channel and the
\* connection only when pendingMessages is empty or the timeout has
\* elapsed; close() is called for it in no other step.
C14_DrainBeforeClose ==
  [][/\ leavesWaitLoop => (pendingMessages = {} \/ obs'.timedOut)
     /\ \A d \in shutdowns' \ shutdowns :
          (d.kind = "graceful" /\ d.pc # "drain" /\
           \A e \in shutdowns : e.kind # "graceful") => leavesWaitLoop]_vars

\* The call waited for a delivery in flight, the set became empty before the
\* timeout, and channel.close() has been called.
C14_Witness ==
  /\ obs.waited /\ ~obs.timedOut /\ pendingMessages = {}
  /\ \E d \in shutdowns : d.kind = "graceful" /\ d.pc = "chanClose" /\ d.wasOpen
  /\ \E id \in DOMAIN msgs : msgs[id].pc = "done"

\* C15: when a gracefulShutdown() that found the instance connected returns,
\* the channel and the connection the instance held are closed, and the
\* drain-timeout warning has been reported if the wait timed out.
C15_ShutdownCloses ==
  [][\A d \in shutdowns \ shutdowns' :
       (d.kind = "graceful" /\ d.pc \in {"chanClose", "connClose"} /\
        \A e \in shutdowns' : e.kind # "graceful")
         => /\ connection # NULL => connection \notin connOpen'
            /\ channel # NULL => channel \notin chanOpen'
            /\ obs.timedOut => obs.drainWarned]_vars

\* C16: a gracefulShutdown() call after the first changes no state and makes
\* no Transport call; at most one close() is in progress for all the calls.
C16_ShutdownIdempotent ==
  /\ [](Cardinality({d \in shutdowns : d.kind = "graceful"}) <= 1)
  /\ [][obs'.repeats # obs.repeats
          => UNCHANGED << instanceVars, loopVars, transportVars >>]_vars

\* A second gracefulShutdown() call was made while the first was suspended
\* in close().
C16_Witness ==
  /\ obs.repeats = 1
  /\ \E d \in shutdowns : d.kind = "graceful" /\ d.pc = "chanClose"

\* C17: when a close() called directly on a connected instance returns, the
\* instance is disconnected and no reconnect has been scheduled or started
\* by it, the connection's own 'close' event included.
C17_CloseIsTerminal ==
  [][\A d \in shutdowns \ shutdowns' :
       (d.kind = "close" /\ \A e \in shutdowns' : e.kind # "close")
         => /\ ~isConnected'
            /\ timers' \subseteq timers
            /\ starts' \subseteq starts
            /\ metrics'.reconnections = metrics.reconnections]_vars

\* C18: a reject that reaches the Transport never asks for a requeue.
C18_RejectIsTerminal ==
  \A id \in DOMAIN msgs : msgs[id].nacks > 0 => ~msgs[id].requeue

\* C19: with reconnect disabled no reconnect is ever scheduled
\* (reconnections and reconnectAttempts stay 0, no timer); a start() whose
\* connect or channel-open fails throws to its caller; a 'close' event leaves
\* the instance disconnected.
C19_ReconnectDisabled ==
  /\ [](~reconnectEnabled =>
          /\ timers = {} /\ reconnectTimer = NULL
          /\ metrics.reconnections = 0 /\ reconnectAttempts = 0)
  /\ [][~reconnectEnabled =>
          /\ obs'.failedConnects # obs.failedConnects => obs'.thrown
          /\ \A c \in 1..MaxConns :
               (closedByTransport(c) /\ hooks[c] > 0)
                 => ~isConnected' /\ channel' = NULL /\ connection' = NULL]_vars

\* Reconnect disabled: the constructor's start() failed and threw, a later
\* start() connected, and the Transport closed that connection.
C19_Witness ==
  /\ ~reconnectEnabled /\ obs.thrown /\ obs.failedConnects = 1
  /\ obs.everConnected /\ ~isConnected /\ nConns = 1 /\ connOpen = {}
  /\ obs.nManual = 1 /\ starts = {}

\* The Transport emits 'error' on an open connection in this step.
errorEvent ==
  /\ obs'.faults = obs.faults + 1
  /\ UNCHANGED << loopVars, nConns, connOpen >>

\* C20: an 'error' event adds exactly 1 to metrics.errors and changes
\* nothing else.
C20_ErrorEventFrame ==
  [][errorEvent =>
       /\ metrics' = [metrics EXCEPT !.errors = @ + 1]
       /\ UNCHANGED << connection, channel, isConnected, isShuttingDown,
                       listeners, pendingMessages, reconnectAttempts,
                       reconnectTimer, reconnectEnabled >>]_vars

\* The number, counted from 1 since reconnectAttempts was last reset by a
\* successful connect, of the reconnect that set timer t in this step.
scheduledAs(t) == reconnectAttempts' - (metrics'.reconnections - t.id)

\* C21: the n-th reconnect scheduled since the last successful connect waits
\* delay * backoffMultiplier^(n-1) ms (1000, 2000, 4000, ... with the
\* defaults), which is never less than the delay of the (n-1)-th.
C21_BackoffDelay ==
  [][\A t \in timers' \ timers :
       LET n == scheduledAs(t)
       IN /\ n \in 1..maxRetries
          /\ t.delay = reconnectDelay * Pow(backoffMultiplier, n - 1)
          /\ n > 1 => t.delay >= reconnectDelay * Pow(backoffMultiplier, n - 2)]_vars

\* Two reconnects were scheduled in a row, for 1000 and then 2000 ms.
C21_Witness ==
  /\ reconnectAttempts = 2 /\ ~obs.everConnected
  /\ \E t \in timers : t.id = 2 /\ t.delay = 2000

\* C22: getMetrics().avgProcessingTime is 0 while messagesProcessed is 0;
\* otherwise it is the integer nearest to totalProcessingTime /
\* messagesProcessed (at most one half away from it, a tie going up).
C22_AvgProcessingTime ==
  LET n == metrics.messagesProcessed
      total == metrics.totalProcessingTime
      avg == avgProcessingTime
  IN /\ n = 0 => avg = 0
     /\ n > 0 => /\ 2 * total - n < 2 * avg * n
                 /\ 2 * avg * n <= 2 * total + n

\* Two deliveries processed in 1 ms altogether: the average 0.5 reads 1.
C22_Witness ==
  /\ metrics.messagesProcessed = 2 /\ metrics.totalProcessingTime = 1
  /\ avgProcessingTime = 1

\* C23: no step lowers or resets messagesSent, messagesReceived,
\* messagesProcessed, errors, reconnections or totalProcessingTime.
C23_CountersGrow ==
  [][\A f \in {"messagesSent", "messagesReceived", "messagesProcessed",
               "errors", "reconnections", "totalProcessingTime"} :
       metrics'[f] >= metrics[f]]_vars

\* Every counter has been raised, and the instance has connected again
\* after a reconnect.
C23_Witness ==
  /\ metrics.messagesSent > 0 /\ metrics.messagesReceived > 0
  /\ metrics.messagesProcessed > 0 /\ metrics.errors > 0
  /\ metrics.reconnections > 0 /\ metrics.totalProcessingTime > 0
  /\ isConnected

\* C24: when channel.close() fails inside close(), the connection is closed
\* all the same, nothing is thrown to the caller (the call just returns), and
\* the instance is left disconnected with channel and connection cleared.
C24_TeardownOnError ==
  [][\A d \in shutdowns \ shutdowns' :
       (d.pc = "chanClose" /\ \A e \in shutdowns' \ shutdowns : e.pc # "connClose")
         => /\ ~isConnected' /\ channel' = NULL /\ connection' = NULL
            /\ connection # NULL => connection \notin connOpen']_vars

\* C25: whenever isConnected is true (status 'healthy'), this.channel and
\* this.connection are both set.
C25_ConnectedHasRefs ==
  isConnected => (channel # NULL /\ connection # NULL)

\* C26: while the instance is connected reconnectAttempts is 0 and no
\* reconnect timer is pending.
C26_NoReconnectWhileConnected ==
  isConnected => (reconnectAttempts = 0 /\ timers = {})

\* C27: no ack or reject of a delivery is issued on a channel other than the
\* one the delivery arrived on.
C27_SettledOnOwnChannel ==
  \A id \in DOMAIN msgs : msgs[id].stray = 0

\* The callbacks that ended in the catch block: the handler threw, the
\* payload did not decode, or the ack threw.
endedInCatch ==
  {id \in DOMAIN msgs :
     msgs[id].pc = "done" /\ (msgs[id].outcome # "ok" \/ msgs[id].threw)}

\* C28: messagesProcessed + pendingMessages.size <= messagesReceived; with
\* nothing in flight messagesReceived = messagesProcessed + the number of
\* deliveries that ended on the failure path; and each of those added
\* exactly 1 to metrics.errors.
C28_DeliveryAccounting ==
  /\ [](/\ metrics.messagesProcessed + Cardinality(pendingMessages)
             <= metrics.messagesReceived
        /\ pendingMessages = {} =>
             metrics.messagesReceived =
               metrics.messagesProcessed + Cardinality(endedInCatch))
  /\ [][\A id \in DOMAIN msgs' :
          (finishesNow(id) /\ id \in endedInCatch')
            => /\ metrics'.errors = metrics.errors + 1
               /\ metrics'.messagesProcessed = metrics.messagesProcessed]_vars

\* Nothing in flight after one delivery was processed and another ended in
\* the catch block because its ack threw.
C28_Witness ==
  /\ pendingMessages = {} /\ metrics.messagesReceived = 2
  /\ metrics.messagesProcessed = 1
  /\ \E id \in endedInCatch : msgs[id].outcome = "ok"

\* C29: reconnectAttempts stays within 0..maxRetries, and since the last
\* successful connect (or since construction) metrics.reconnections has
\* grown by at most maxRetries.
C29_AttemptsBounded ==
  /\ reconnectAttempts \in 0..maxRetries
  /\ metrics.reconnections - obs.reconnectionsAtConnect <= maxRetries

\* After a successful connect that followed one reconnect, maxRetries more
\* reconnects have been scheduled and the ceiling is reached.
C29_Witness ==
  /\ obs.everConnected /\ obs.reconnectionsAtConnect = 1
  /\ reconnectAttempts = maxRetries
  /\ metrics.reconnections = maxRetries + 1

====
